---- MODULE Spec2Model ----
(***************************************************************************)
(* Model of the Parquet consolidation workflow of imc-schema:              *)
(*   ParquetConsolidator.consolidate_date   (parquet_consolidator.py)      *)
(*   RemoteHDFSConsolidator.consolidate_date_dry_run (consolidate_remote)  *)
(* A date partition of the remote store holds source files and published   *)
(* consolidated files.  Runs on the partition follow one another; every    *)
(* remote call (list, get, put, rm) and the local steps that the code      *)
(* guards with try/except may fail.                                        *)
(*                                                                         *)
(* The remote operations follow the subprocess ("hdfs dfs ...") branch of  *)
(* ParquetConsolidator, the one taken when self.hdfs is None.  A call      *)
(* either succeeds with its effect or fails without it (non-zero status,   *)
(* timeout or exception).  One date run is modelled from its entry to its  *)
(* return; the partition it starts from holds NumFiles source files.       *)
(***************************************************************************)
EXTENDS Integers, FiniteSets, Sequences, TLC

\* ---------------------------------------------------------------- bounds
NumFiles == 5        \* source files a partition starts with
MaxStamp == 2        \* distinct HHMMSS generation stamps the clock can show
MaxSmall == 2        \* source files that start smaller than the largest size
MaxDates == 2        \* dates one invocation of main is asked to consolidate
MaxTargets == 6      \* largest total size of an analysed partition, in target file sizes

\* ------------------------------------------------------ program constants
CLEANUP_THRESHOLD_BYTES  == 1024
MIN_FILE_SIZE_BYTES      == 1024
MIN_FILES_TO_CONSOLIDATE == 5
TARGET_FILE_SIZE_MB == 128
PARALLEL_DOWNLOADS == 8
BytesPerMB == 1024 * 1024

\* ------------------------------------------------------------ remote paths
\* Path f in 1..NumFiles is the source file "telemetry-<f>.parquet"; path
\* NumFiles+t is "telemetry-<date>-consolidated-<t>.parquet".
Files  == 1..NumFiles
Stamps == 1..MaxStamp
ConsolidatedPath(t) == NumFiles + t
Paths  == 1..(NumFiles + MaxStamp)
IsConsolidated(p) == p > NumFiles

\* Sizes (bytes) a source file may have: below, at and above the thresholds.
SourceSizes    == {512, 1024, 1500}
ThresholdSizes == {1024, 1500, 4096}

\* Rows stored in source file f.
RowCount(f) == f

RECURSIVE SumOver(_, _)
SumOver(S, fn) ==
    IF S = {} THEN 0
    ELSE LET x == CHOOSE y \in S : TRUE
         IN  fn[x] + SumOver(S \ {x}, fn)

Rows == [f \in Files |-> RowCount(f)]

Min(S) == CHOOSE x \in S : \A y \in S : x <= y
Max(S) == CHOOSE x \in S : \A y \in S : x >= y

VARIABLES
    present,            \* paths that exist in the remote partition
    size,               \* size in bytes of every path (0 when it never existed)
    content,            \* source files whose rows a path holds
    cleanupThreshold,   \* CLEANUP_THRESHOLD_BYTES in force
    minFileSize,        \* MIN_FILE_SIZE_BYTES in force
    pc,                 \* position of the orchestrating thread
    variant,            \* "parquet" (ParquetConsolidator) or "remote" (RemoteHDFSConsolidator)
    dry_run,
    files,              \* result of get_daily_files
    file_info,          \* keys of file_info['files']
    skipped_files,
    total_size,         \* bytes summed by get_file_info / get_file_sizes
    sweepQueue,         \* sweep candidates not yet attempted
    pending,            \* downloads submitted and not completed
    local_files,        \* source files staged locally (successful downloads)
    staging,            \* temp_dir exists on the local disk
    output,             \* stamp of consolidated_filename (0 before step 5)
    reapQueue,          \* remove_source_files: files not yet attempted
    result,             \* "none", "True" or "False": what the run returned
    \* history of the current run
    startPresent,       \* remote partition when the run started
    sweepCalls,         \* paths the sweeper issued a delete for
    getCalls,           \* paths a download was issued for
    putCalls,           \* number of put calls
    reapCalls,          \* paths remove_source_files issued a delete for
    mergeInputs,        \* files read by consolidate_parquet_files
    mergeResult,        \* "none", "True", "False"
    mergeFault,         \* "none" or the reason the merge failed
    totalRows,          \* total_rows summed by the merge
    rereadRows,         \* len(verification_table)
    uploadResult,       \* "none", "True", "False"
    stagingCreated,     \* the run created temp_dir
    rmtreeResult,       \* "none", "ok" or "raised": shutil.rmtree of the run
    scanResult,         \* "none", "ok" or "failed": the listing of get_daily_files
    \* consolidate_date_dry_run's report
    file_count,
    target_files,
    reduction_percent,
    \* main() of parquet_consolidator.py
    numDates,           \* len(dates)
    args_dry_run,       \* args.dry_run
    dateIdx,            \* position of the for loop in dates (0 before it)
    called,             \* dates consolidate_date was called for, in order
    outcomes,           \* what consolidate_date returned for each of them
    success_count,
    exit_code,          \* -1 until main returns
    \* counts kept by the calls of one run
    deleted_count,      \* cleanup_corrupted_files: what it returns
    sweepListResult,    \* "none", "ok" or "failed": the sweeper's listing
    sizeCalls,          \* remote calls issued to resolve file sizes
    reapAttempts,       \* remove_source_files: delete calls issued
    goneCalls,          \* remove_source_files: delete calls for a file already gone
    \* download_files' executor
    inflight,           \* downloads a worker thread is running
    finished,           \* completed futures as_completed has not yielded yet
    failing,            \* files whose "hdfs dfs -get" the remote store fails
    appends             \* local_files.append calls

remoteVars == <<present, size, content>>
configVars == <<cleanupThreshold, minFileSize>>
planVars   == <<files, file_info, skipped_files, total_size>>
localVars  == <<sweepQueue, pending, local_files, staging, output, reapQueue>>
callVars   == <<startPresent, sweepCalls, getCalls, putCalls, reapCalls, mergeInputs,
                mergeResult, mergeFault, totalRows, rereadRows, uploadResult,
                stagingCreated, rmtreeResult>>
histVars   == <<callVars, scanResult>>
reportVars == <<file_count, target_files, reduction_percent>>
batchVars  == <<numDates, args_dry_run, dateIdx, called, outcomes, success_count,
                exit_code>>
countVars  == <<deleted_count, sweepListResult, sizeCalls, reapAttempts, goneCalls>>
poolVars   == <<inflight, finished, failing, appends>>
vars == <<remoteVars, configVars, pc, variant, dry_run, planVars, localVars,
          result, histVars, reportVars, batchVars, countVars, poolVars>>

\* ------------------------------------------------------------------- Init
Sorted(sz) == \A i, j \in Files : i < j => sz[i] <= sz[j]

\* No date run has started: nothing planned, staged or called.
RunInit ==
    /\ variant = "parquet"
    /\ dry_run = FALSE
    /\ files = {} /\ file_info = {} /\ skipped_files = {} /\ total_size = 0
    /\ sweepQueue = {} /\ pending = {} /\ local_files = {}
    /\ staging = FALSE /\ output = 0 /\ reapQueue = {}
    /\ result = "none"
    /\ startPresent = Files
    /\ sweepCalls = {} /\ getCalls = {} /\ putCalls = 0 /\ reapCalls = {}
    /\ mergeInputs = {} /\ mergeResult = "none" /\ mergeFault = "none"
    /\ totalRows = 0 /\ rereadRows = 0 /\ uploadResult = "none"
    /\ stagingCreated = FALSE /\ rmtreeResult = "none"
    /\ scanResult = "none"
    /\ file_count = 0 /\ target_files = 0 /\ reduction_percent = 0
    /\ deleted_count = 0 /\ sweepListResult = "none"
    /\ sizeCalls = 0 /\ reapAttempts = 0 /\ goneCalls = 0
    /\ inflight = {} /\ finished = {} /\ failing = {} /\ appends = 0

InitWith(sizes, cleanup, minsize) ==
    /\ \E sz \in [Files -> sizes] :
          /\ Sorted(sz)
          /\ Cardinality({p \in Files : sz[p] # Max(sizes)}) <= MaxSmall
          /\ size = [p \in Paths |-> IF p \in Files THEN sz[p] ELSE 0]
    /\ present = Files
    /\ content = [p \in Paths |-> IF p \in Files THEN {p} ELSE {}]
    /\ cleanupThreshold = cleanup
    /\ minFileSize = minsize
    /\ pc = "idle"
    /\ RunInit
    /\ numDates = 1 /\ args_dry_run = FALSE /\ dateIdx = 0
    /\ called = <<>> /\ outcomes = <<>> /\ success_count = 0 /\ exit_code = -1

Init == InitWith(SourceSizes, CLEANUP_THRESHOLD_BYTES, MIN_FILE_SIZE_BYTES)

\* ------------------------------------------------------------ listings
\* Lines of "hdfs dfs -ls" that carry 'telemetry-' and '.parquet'.
Listing == present

\* ---------------------------------------------------------------- actions
\* consolidate_date / consolidate_date_dry_run is entered.
StartRun(v, d) ==
    /\ pc = "idle"
    /\ v = "remote" => d
    /\ variant' = v
    /\ dry_run' = d
    /\ pc' = IF v = "parquet" THEN "sweep_list" ELSE "scan"
    /\ files' = {} /\ file_info' = {} /\ skipped_files' = {} /\ total_size' = 0
    /\ sweepQueue' = {} /\ pending' = {} /\ local_files' = {}
    /\ staging' = FALSE /\ output' = 0 /\ reapQueue' = {}
    /\ result' = "none"
    /\ startPresent' = present
    /\ sweepCalls' = {} /\ getCalls' = {} /\ putCalls' = 0 /\ reapCalls' = {}
    /\ mergeInputs' = {} /\ mergeResult' = "none" /\ mergeFault' = "none"
    /\ totalRows' = 0 /\ rereadRows' = 0 /\ uploadResult' = "none"
    /\ stagingCreated' = FALSE /\ rmtreeResult' = "none"
    /\ scanResult' = "none"
    /\ file_count' = 0 /\ target_files' = 0 /\ reduction_percent' = 0
    /\ deleted_count' = 0 /\ sweepListResult' = "none"
    /\ sizeCalls' = 0 /\ reapAttempts' = 0 /\ goneCalls' = 0
    /\ inflight' = {} /\ finished' = {} /\ failing' = {} /\ appends' = 0
    /\ UNCHANGED <<remoteVars, configVars, batchVars>>

\* The sweeper's candidates: listed lines with size <= CLEANUP_THRESHOLD_BYTES.
SweepCandidates == {p \in Listing : size[p] <= cleanupThreshold}

\* Mutant of SweepTodo: the dry_run flag is not consulted.
SweepTodoIgnoresDryRun(ok) == IF ok THEN SweepCandidates ELSE {}

\* The files cleanup_corrupted_files issues a delete for: none when the
\* listing failed, none under dry_run (the candidates are only logged).
SweepTodo(ok) == IF ok /\ ~dry_run THEN SweepCandidates ELSE {}

\* cleanup_corrupted_files: the listing.
SweepList(ok) ==
    /\ pc = "sweep_list"
    /\ sweepListResult' = IF ok THEN "ok" ELSE "failed"
    /\ LET todo == SweepTodo(ok)
       IN  /\ sweepQueue' = todo
           /\ pc' = IF todo = {} THEN "scan" ELSE "sweep"
    /\ UNCHANGED <<remoteVars, configVars, variant, dry_run, planVars,
                   pending, local_files, staging, output, reapQueue, result, histVars,
                   reportVars, batchVars, deleted_count, sizeCalls, reapAttempts, goneCalls,
                   poolVars>>

\* cleanup_corrupted_files: one "hdfs dfs -rm" of the loop.
SweepDelete(ok) ==
    /\ pc = "sweep"
    /\ sweepQueue # {}
    /\ LET p == Min(sweepQueue)
       IN  /\ sweepCalls' = sweepCalls \cup {p}
           /\ present' = IF ok THEN present \ {p} ELSE present
           /\ sweepQueue' = sweepQueue \ {p}
           /\ deleted_count' = IF ok THEN deleted_count + 1 ELSE deleted_count
           /\ pc' = IF sweepQueue \ {p} = {} THEN "scan" ELSE "sweep"
    /\ UNCHANGED <<size, content, configVars, variant, dry_run, planVars,
                   pending, local_files, staging, output, reapQueue, result,
                   startPresent, getCalls, putCalls, reapCalls, mergeInputs,
                   mergeResult, mergeFault, totalRows, rereadRows, uploadResult,
                   stagingCreated, rmtreeResult,
                   scanResult, reportVars, batchVars, sweepListResult, sizeCalls,
                   reapAttempts, goneCalls, poolVars>>

\* cleanup_corrupted_files: the subprocess.run of one "hdfs dfs -rm" raises.
\* The loop catches only ValueError and IndexError, so the exception reaches
\* the handler of the whole function, which logs it and returns 0; the
\* candidates not yet attempted are left alone.
SweepDeleteRaises ==
    /\ pc = "sweep"
    /\ sweepQueue # {}
    /\ sweepCalls' = sweepCalls \cup {Min(sweepQueue)}
    /\ sweepQueue' = {}
    /\ deleted_count' = 0
    /\ pc' = "scan"
    /\ UNCHANGED <<remoteVars, configVars, variant, dry_run, planVars,
                   pending, local_files, staging, output, reapQueue, result,
                   startPresent, getCalls, putCalls, reapCalls, mergeInputs,
                   mergeResult, mergeFault, totalRows, rereadRows, uploadResult,
                   stagingCreated, rmtreeResult,
                   scanResult, reportVars, batchVars, sweepListResult, sizeCalls,
                   reapAttempts, goneCalls, poolVars>>

\* get_daily_files: lines of the listing that are not consolidated output.
DailyFiles(listing) == {p \in listing : ~IsConsolidated(p)}

\* RemoteHDFSConsolidator.get_daily_files: every 'telemetry-' '.parquet' line.
RemoteDailyFiles(listing) == listing

\* Mutant of TooFew: the gate compares against one file less.
TooFewOffByOne(fl) == Cardinality(fl) < MIN_FILES_TO_CONSOLIDATE - 1

\* The gate of consolidate_date on the list get_daily_files returned.
TooFew(fl) == Cardinality(fl) < MIN_FILES_TO_CONSOLIDATE

\* consolidate_date step 1: get_daily_files (a failed listing gives []) and
\* the early return when fewer than MIN_FILES_TO_CONSOLIDATE files are listed.
\* What get_daily_files returns: the filtered listing, or [] when the listing
\* call failed.
ScannedFilesIgnoresFailure(ok) == DailyFiles(Listing)
ScannedFiles(ok) == IF ok THEN DailyFiles(Listing) ELSE {}

Scan(ok) ==
    /\ pc = "scan"
    /\ variant = "parquet"
    /\ scanResult' = IF ok THEN "ok" ELSE "failed"
    /\ LET fl == ScannedFiles(ok)
       IN  /\ files' = fl
           /\ IF TooFew(fl)
              THEN /\ result' = "True"
                   /\ pc' = "returned"
              ELSE /\ result' = result
                   /\ pc' = "info"
    /\ deleted_count' = 0
    /\ sweepListResult' = "none"
    /\ UNCHANGED <<remoteVars, configVars, variant, dry_run, file_info,
                   skipped_files, total_size, localVars, callVars, reportVars,
                   batchVars, sizeCalls, reapAttempts, goneCalls, poolVars>>

\* consolidate_date_dry_run: get_daily_files and the early return.
RemoteScan(ok) ==
    /\ pc = "scan"
    /\ variant = "remote"
    /\ scanResult' = IF ok THEN "ok" ELSE "failed"
    /\ LET fl == IF ok THEN RemoteDailyFiles(Listing) ELSE {}
       IN  /\ files' = fl
           /\ IF TooFew(fl)
              THEN /\ result' = "True"
                   /\ pc' = "returned"
              ELSE /\ result' = result
                   /\ pc' = "remote_sizes"
    /\ deleted_count' = 0
    /\ sweepListResult' = "none"
    /\ UNCHANGED <<remoteVars, configVars, variant, dry_run, file_info,
                   skipped_files, total_size, localVars, callVars, reportVars,
                   batchVars, sizeCalls, reapAttempts, goneCalls, poolVars>>

\* get_file_info: the files kept in file_info['files'] when the batched
\* listing answered (ok) or failed (every file is skipped).
InfoFiles(fl, ok) ==
    IF ok THEN {p \in fl : p \in present /\ ~(size[p] < minFileSize)} ELSE {}

\* consolidate_date step 2: get_file_info, then the dry-run report and return.
GetFileInfo(ok) ==
    /\ pc = "info"
    /\ LET info == InfoFiles(files, ok)
       IN  /\ file_info' = info
           /\ skipped_files' = files \ info
           /\ total_size' = SumOver(info, size)
    /\ sizeCalls' = 1
    /\ IF dry_run
       THEN /\ result' = "True"
            /\ pc' = "returned"
       ELSE /\ result' = result
            /\ pc' = "stage"
    /\ UNCHANGED <<remoteVars, configVars, variant, dry_run, files,
                   localVars, histVars,
                   reportVars, batchVars,
                   deleted_count, sweepListResult, reapAttempts, goneCalls, poolVars>>

\* consolidate_date_dry_run: get_file_sizes (one stat per file, a failed stat
\* counts 0 bytes), the report, return True.
\* consolidate_date_dry_run's consolidation analysis.  total_size_mb is
\* total / 2^20 and the quotient by TARGET_FILE_SIZE_MB is truncated by int();
\* both divisors are powers of two, so the truncated quotient is the integer
\* quotient of the byte count by TARGET_FILE_SIZE_MB * 2^20.
TargetFilesUnclamped(total) == total \div (TARGET_FILE_SIZE_MB * BytesPerMB)
TargetFiles(total) == Max({1, total \div (TARGET_FILE_SIZE_MB * BytesPerMB)})

ReductionPercent(count, target) == ((count - target) * 100) \div count

RemoteGetFileSizes(okset) ==
    /\ pc = "remote_sizes"
    /\ okset \subseteq files
    /\ file_info' = files
    /\ total_size' = SumOver(okset, size)
    /\ file_count' = Cardinality(files)
    /\ target_files' = TargetFiles(total_size')
    /\ reduction_percent' = ReductionPercent(file_count', target_files')
    /\ sizeCalls' = Cardinality(files)
    /\ result' = "True"
    /\ pc' = "returned"
    /\ UNCHANGED <<remoteVars, configVars, variant, dry_run, files,
                   skipped_files, localVars, histVars, batchVars,
                   deleted_count, sweepListResult, reapAttempts, goneCalls, poolVars>>

\* download_files: os.makedirs(local_dir) and the submission of every file
\* of `files`; an exception of makedirs reaches consolidate_date's handler.
DownloadStart(ok) ==
    /\ pc = "stage"
    /\ IF ok
       THEN /\ staging' = TRUE
            /\ stagingCreated' = TRUE
            /\ pending' = files
            /\ result' = result
            /\ pc' = "fetch"
       ELSE /\ UNCHANGED <<staging, stagingCreated, pending>>
            /\ result' = "False"
            /\ pc' = "cleanup"
    /\ UNCHANGED <<remoteVars, configVars, variant, dry_run, planVars,
                   sweepQueue, local_files, output, reapQueue,
                   startPresent, sweepCalls, getCalls, putCalls, reapCalls,
                   mergeInputs, mergeResult, mergeFault, totalRows, rereadRows,
                   uploadResult, rmtreeResult,
                   scanResult, reportVars, batchVars, countVars, poolVars>>

\* Mutant of AfterFetch: the return on zero downloads bypasses the finally block.
AfterFetchSkipsFinally(got) == IF got = {} THEN "returned" ELSE "merge"

\* What consolidate_date does with the list download_files returned.
AfterFetchMergesNothing(got) == "merge"
AfterFetch(got) == IF got = {} THEN "cleanup" ELSE "merge"

\* _download_single_file for one submitted file, and its collection by
\* download_files; after the last one download_files returns.
\* download_files returns when the executor's with block is left, that is
\* when no submitted download is outstanding.
FirstWorkerDone(rest) == TRUE
AllWorkersDone(rest) == rest = {}

DownloadOne(p, ok) ==
    /\ pc = "fetch"
    /\ p \in pending
    /\ ok => p \in present
    /\ getCalls' = getCalls \cup {p}
    /\ pending' = pending \ {p}
    /\ LET got == IF ok THEN local_files \cup {p} ELSE local_files
       IN  /\ local_files' = got
           /\ IF AllWorkersDone(pending \ {p})
              THEN /\ pc' = AfterFetch(got)
                   /\ result' = IF AfterFetch(got) = "cleanup" THEN "False" ELSE result
              ELSE /\ pc' = pc
                   /\ result' = result
    /\ UNCHANGED <<remoteVars, configVars, variant, dry_run, planVars,
                   sweepQueue, staging, output, reapQueue,
                   startPresent, sweepCalls, putCalls, reapCalls,
                   mergeInputs, mergeResult, mergeFault, totalRows, rereadRows,
                   uploadResult, stagingCreated, rmtreeResult,
                   scanResult, reportVars, batchVars, countVars, poolVars>>

\* Mutant of VerifyOutput: the row counts are not compared.
VerifyOutputSkipped(reread, total) == TRUE

\* consolidate_parquet_files: the verification of the re-read output.
VerifyOutput(reread, total) == reread = total

\* Row counts the re-read of the written output may show.
RereadChoices(total) == {total, total - 1}

\* datetime.now() in the output name: the HHMMSS stamp of an output already
\* in the partition, or a new one (stamps matter only by equality).
StampChoices ==
    LET used   == {t \in Stamps : ConsolidatedPath(t) \in present}
        unused == Stamps \ used
    IN  used \cup (IF unused = {} THEN {} ELSE {Min(unused)})

\* Mutant of AfterMerge: a failed merge does not stop the run.
AfterMergeUploadsAnyway(good) == "upload"

\* What consolidate_date does with the value consolidate_parquet_files returned.
AfterMerge(good) == IF good THEN "upload" ELSE "cleanup"

\* consolidate_date step 5: the stamped output name and
\* consolidate_parquet_files.  fault: "none", "schema" (concat_tables
\* rejects differing schemas) or "io" (a read or the write raises).
Merge(stamp, fault, reread) ==
    /\ pc = "merge"
    /\ stamp \in StampChoices
    /\ fault = "schema" => Cardinality(local_files) >= 2
    /\ LET total == SumOver(local_files, Rows)
           good  == fault = "none" /\ VerifyOutput(reread, total)
       IN  /\ reread \in RereadChoices(total)
           /\ fault # "none" => reread = total
           /\ mergeInputs' = local_files
           /\ totalRows' = total
           /\ rereadRows' = IF fault = "none" THEN reread ELSE 0
           /\ output' = stamp
           /\ mergeFault' = IF fault # "none" THEN fault
                            ELSE IF reread # total THEN "rowcount" ELSE "none"
           /\ mergeResult' = IF good THEN "True" ELSE "False"
           /\ result' = IF AfterMerge(good) = "cleanup" THEN "False" ELSE result
           /\ pc' = AfterMerge(good)
    /\ UNCHANGED <<remoteVars, configVars, variant, dry_run, planVars,
                   sweepQueue, pending, local_files, staging, reapQueue,
                   startPresent, sweepCalls, getCalls, putCalls, reapCalls,
                   uploadResult, stagingCreated, rmtreeResult,
                   scanResult, reportVars, batchVars, countVars, poolVars>>

\* Mutant of AfterUpload: a failed upload does not stop the run.
AfterUploadIgnoresResult(ok) == "reap"

\* Mutant of AfterUpload: a failed upload is tried again.
AfterUploadRetries(ok) == IF ok THEN "reap" ELSE "upload"

\* What consolidate_date does with the value upload_consolidated_file returned.
AfterUpload(ok) == IF ok THEN "reap" ELSE "cleanup"

\* The list consolidate_date hands to remove_source_files.
ReapSet == files

\* consolidate_date step 6: upload_consolidated_file ("hdfs dfs -put" does
\* not overwrite an existing path).  The published file holds the rows of
\* the merge inputs; its size is taken as the sum of their sizes.
Upload(ok) ==
    /\ pc = "upload"
    /\ LET dest == ConsolidatedPath(output)
       IN  /\ ok => dest \notin present
           /\ putCalls' = putCalls + 1
           /\ uploadResult' = IF ok THEN "True" ELSE "False"
           /\ present' = IF ok THEN present \cup {dest} ELSE present
           /\ size' = IF ok THEN [size EXCEPT ![dest] = SumOver(mergeInputs, size)]
                      ELSE size
           /\ content' = IF ok THEN [content EXCEPT ![dest] = mergeInputs]
                         ELSE content
           /\ pc' = AfterUpload(ok)
           /\ reapQueue' = IF AfterUpload(ok) = "reap" THEN ReapSet ELSE reapQueue
           /\ result' = IF AfterUpload(ok) = "reap" THEN result ELSE "False"
    /\ UNCHANGED <<configVars, variant, dry_run, planVars,
                   sweepQueue, pending, local_files, staging, output,
                   startPresent, sweepCalls, getCalls, reapCalls,
                   mergeInputs, mergeResult, mergeFault, totalRows, rereadRows,
                   stagingCreated, rmtreeResult,
                   scanResult, reportVars, batchVars, countVars, poolVars>>

\* remove_source_files: one "hdfs dfs -rm" of the loop; a failure is a
\* warning.  After the last one consolidate_date returns True.
\* The files remove_source_files still has to visit after the delete of p
\* returned: the loop goes on whatever the outcome.
ReapRestStopsOnFailure(queue, p, ok) == IF ok THEN queue \ {p} ELSE {}
ReapRest(queue, p, ok) == queue \ {p}

\* Whether the error of a delete whose file is already gone leaves the loop
\* of remove_source_files: each delete has its own try/except.
ReapErrorEscapesWhenGone(gone) == gone
ReapErrorEscapes(gone) == FALSE

Reap(ok) ==
    /\ pc = "reap"
    /\ reapQueue # {}
    /\ LET p == Min(reapQueue)
           gone == p \notin present
           rest == IF ReapErrorEscapes(gone) THEN {} ELSE ReapRest(reapQueue, p, ok)
       IN  /\ ok => ~gone
           /\ reapCalls' = reapCalls \cup {p}
           /\ reapAttempts' = reapAttempts + 1
           /\ goneCalls' = IF gone THEN goneCalls + 1 ELSE goneCalls
           /\ present' = IF ok THEN present \ {p} ELSE present
           /\ reapQueue' = rest
           /\ IF ReapErrorEscapes(gone)
              THEN /\ result' = "False"
                   /\ pc' = "cleanup"
              ELSE IF rest = {}
              THEN /\ result' = "True"
                   /\ pc' = "cleanup"
              ELSE /\ result' = result
                   /\ pc' = pc
    /\ UNCHANGED <<size, content, configVars, variant, dry_run, planVars,
                   sweepQueue, pending, local_files, staging, output,
                   startPresent, sweepCalls, getCalls, putCalls,
                   mergeInputs, mergeResult, mergeFault, totalRows, rereadRows,
                   uploadResult, stagingCreated, rmtreeResult,
                   scanResult, reportVars, batchVars,
                   deleted_count, sweepListResult, sizeCalls, poolVars>>

\* consolidate_date's finally block: shutil.rmtree(temp_dir) when it exists;
\* an exception of rmtree is logged and swallowed.
Cleanup(ok) ==
    /\ pc = "cleanup"
    /\ IF staging
       THEN /\ rmtreeResult' = IF ok THEN "ok" ELSE "raised"
            /\ staging' = ~ok
       ELSE /\ ok
            /\ UNCHANGED <<rmtreeResult, staging>>
    /\ pc' = "returned"
    /\ UNCHANGED <<remoteVars, configVars, variant, dry_run, planVars,
                   sweepQueue, pending, local_files, output, reapQueue, result,
                   startPresent, sweepCalls, getCalls, putCalls, reapCalls,
                   mergeInputs, mergeResult, mergeFault, totalRows, rereadRows,
                   uploadResult, stagingCreated,
                   scanResult, reportVars, batchVars, countVars, poolVars>>

\* ------------------------------------------------------------ timeouts
\* Whether the subprocess.run of a remote call is given a timeout.  A call
\* with one that is not answered raises TimeoutExpired, which is one of the
\* call's failures; a call without one that is not answered never returns.
HasTimeout(call) ==
    CASE call = "sweep_ls" -> FALSE
      [] call = "sweep_rm" -> FALSE
      [] call = "scan_ls"  -> FALSE
      [] call = "info_ls"  -> TRUE
      [] call = "get"      -> FALSE
      [] call = "put"      -> TRUE
      [] call = "reap_rm"  -> TRUE
      [] call = "ssh"      -> TRUE

\* The remote call the run issues next.
CallAt ==
    CASE pc = "sweep_list"   -> "sweep_ls"
      [] pc = "sweep"        -> "sweep_rm"
      [] pc = "scan"         -> IF variant = "parquet" THEN "scan_ls" ELSE "ssh"
      [] pc = "info"         -> "info_ls"
      [] pc = "remote_sizes" -> "ssh"
      [] pc = "fetch"        -> "get"
      [] pc = "upload"       -> "put"
      [] pc = "reap"         -> "reap_rm"
      [] OTHER               -> "none"

\* The remote store never answers the call and nothing bounds the wait.
Hang ==
    /\ CallAt # "none"
    /\ ~HasTimeout(CallAt)
    /\ pc' = "hung"
    /\ UNCHANGED <<remoteVars, configVars, variant, dry_run, planVars, localVars,
                   result, histVars, reportVars, batchVars, countVars, poolVars>>

Next ==
    \/ \E v \in {"parquet", "remote"}, d \in BOOLEAN : StartRun(v, d)
    \/ \E ok \in BOOLEAN : SweepList(ok)
    \/ \E ok \in BOOLEAN : SweepDelete(ok)
    \/ SweepDeleteRaises
    \/ \E ok \in BOOLEAN : Scan(ok)
    \/ \E ok \in BOOLEAN : RemoteScan(ok)
    \/ \E ok \in BOOLEAN : GetFileInfo(ok)
    \/ \E okset \in SUBSET files : RemoteGetFileSizes(okset)
    \/ \E ok \in BOOLEAN : DownloadStart(ok)
    \/ \E p \in Paths, ok \in BOOLEAN : DownloadOne(p, ok)
    \/ \E t \in Stamps, fault \in {"none", "schema", "io"}, n \in 0..SumOver(Files, Rows) :
          Merge(t, fault, n)
    \/ \E ok \in BOOLEAN : Upload(ok)
    \/ \E ok \in BOOLEAN : Reap(ok)
    \/ \E ok \in BOOLEAN : Cleanup(ok)
    \/ Hang

Spec == Init /\ [][Next]_vars

\* A configuration whose planning threshold lies above the sweep threshold.
InitThresholds ==
    InitWith(ThresholdSizes, CLEANUP_THRESHOLD_BYTES, 2 * MIN_FILE_SIZE_BYTES)

SpecThresholds == InitThresholds /\ [][Next]_vars

\* A partition that already holds the output of an earlier run on the same
\* date, next to source files written since.
PriorSizes == {CLEANUP_THRESHOLD_BYTES, 4 * CLEANUP_THRESHOLD_BYTES}

InitPrior ==
    /\ present = Files \cup {ConsolidatedPath(1)}
    /\ \E c \in PriorSizes :
          size = [p \in Paths |-> IF p = ConsolidatedPath(1) THEN c
                                  ELSE IF p \in Files THEN Max(SourceSizes) ELSE 0]
    /\ content = [p \in Paths |-> IF p \in Files THEN {p} ELSE {}]
    /\ cleanupThreshold = CLEANUP_THRESHOLD_BYTES
    /\ minFileSize = MIN_FILE_SIZE_BYTES
    /\ pc = "idle"
    /\ RunInit
    /\ numDates = 1 /\ args_dry_run = FALSE /\ dateIdx = 0
    /\ called = <<>> /\ outcomes = <<>> /\ success_count = 0 /\ exit_code = -1

SpecPrior == InitPrior /\ [][Next]_vars

\* The partition an earlier run left behind when it published the rows of
\* all source files as ConsolidatedPath(1) and its deletes failed: all the
\* originals, or all but the last, are still there.
Survivors == {Files, Files \ {NumFiles}}

InitRerun ==
    /\ \E left \in Survivors : present = left \cup {ConsolidatedPath(1)}
    /\ \E first \in {CLEANUP_THRESHOLD_BYTES, Max(SourceSizes)} :
          size = [p \in Paths |->
                    IF p = ConsolidatedPath(1)
                    THEN first + (NumFiles - 1) * Max(SourceSizes)
                    ELSE IF p = 1 THEN first
                    ELSE IF p \in Files THEN Max(SourceSizes) ELSE 0]
    /\ content = [p \in Paths |-> IF p \in Files THEN {p}
                                   ELSE IF p = ConsolidatedPath(1) THEN Files ELSE {}]
    /\ cleanupThreshold = CLEANUP_THRESHOLD_BYTES
    /\ minFileSize = MIN_FILE_SIZE_BYTES
    /\ pc = "idle"
    /\ RunInit
    /\ numDates = 1 /\ args_dry_run = FALSE /\ dateIdx = 0
    /\ called = <<>> /\ outcomes = <<>> /\ success_count = 0 /\ exit_code = -1

SpecRerun == InitRerun /\ [][Next]_vars

\* ------------------------------------------------------------ executor
\* download_files step by step: the executor's queue, its worker threads and
\* the as_completed loop of the calling thread.  The partition has one file
\* more than there are workers and only download_files is followed.
FetchFiles == 1..(PARALLEL_DOWNLOADS + 1)

\* The files whose "hdfs dfs -get" fails (non-zero exit status or exception;
\* _download_single_file returns None for both).
FailingChoices ==
    {{}, {1}, {2, PARALLEL_DOWNLOADS + 1}, FetchFiles \ {PARALLEL_DOWNLOADS}, FetchFiles}

InitFetch ==
    /\ present = FetchFiles
    /\ size = [p \in FetchFiles |-> Max(SourceSizes)]
    /\ content = [p \in FetchFiles |-> {p}]
    /\ cleanupThreshold = CLEANUP_THRESHOLD_BYTES
    /\ minFileSize = MIN_FILE_SIZE_BYTES
    /\ pc = "fetch"
    /\ variant = "parquet" /\ dry_run = FALSE
    /\ files = FetchFiles /\ file_info = FetchFiles /\ skipped_files = {}
    /\ total_size = SumOver(FetchFiles, size)
    /\ sweepQueue = {} /\ pending = FetchFiles /\ local_files = {}
    /\ staging = TRUE /\ output = 0 /\ reapQueue = {}
    /\ result = "none"
    /\ startPresent = FetchFiles
    /\ sweepCalls = {} /\ getCalls = {} /\ putCalls = 0 /\ reapCalls = {}
    /\ mergeInputs = {} /\ mergeResult = "none" /\ mergeFault = "none"
    /\ totalRows = 0 /\ rereadRows = 0 /\ uploadResult = "none"
    /\ stagingCreated = TRUE /\ rmtreeResult = "none"
    /\ scanResult = "ok"
    /\ file_count = 0 /\ target_files = 0 /\ reduction_percent = 0
    /\ deleted_count = 0 /\ sweepListResult = "none"
    /\ sizeCalls = 1 /\ reapAttempts = 0 /\ goneCalls = 0
    /\ inflight = {} /\ finished = {} /\ appends = 0
    /\ failing \in FailingChoices
    /\ numDates = 1 /\ args_dry_run = FALSE /\ dateIdx = 0
    /\ called = <<>> /\ outcomes = <<>> /\ success_count = 0 /\ exit_code = -1

\* The executor runs a queued task only on one of its max_workers threads.
WorkerAlwaysFree(running) == TRUE
WorkerFree(running) == Cardinality(running) < PARALLEL_DOWNLOADS

\* A worker thread takes the oldest queued task and issues its get.
WorkerStart ==
    /\ pc = "fetch"
    /\ pending # {}
    /\ WorkerFree(inflight)
    /\ LET p == Min(pending)
       IN  /\ pending' = pending \ {p}
           /\ inflight' = inflight \cup {p}
           /\ getCalls' = getCalls \cup {p}
    /\ UNCHANGED <<remoteVars, configVars, pc, variant, dry_run, planVars,
                   sweepQueue, local_files, staging, output, reapQueue, result,
                   startPresent, sweepCalls, putCalls, reapCalls,
                   mergeInputs, mergeResult, mergeFault, totalRows, rereadRows,
                   uploadResult, stagingCreated, rmtreeResult,
                   scanResult, reportVars, batchVars, countVars,
                   finished, failing, appends>>

\* _download_single_file returns (a path or None): the future is done.
WorkerFinish(p) ==
    /\ pc = "fetch"
    /\ p \in inflight
    /\ inflight' = inflight \ {p}
    /\ finished' = finished \cup {p}
    /\ UNCHANGED <<remoteVars, configVars, pc, variant, dry_run, planVars, localVars,
                   result, histVars, reportVars, batchVars, countVars,
                   failing, appends>>

\* What the as_completed loop appends for a future it is handed.
CollectResultRacy(p) == IF p \in failing \/ finished # {p} THEN {} ELSE {p}
CollectResult(p) == IF p \in failing THEN {} ELSE {p}

\* The calling thread is handed one done future by as_completed.
Collect(p) ==
    /\ pc = "fetch"
    /\ p \in finished
    /\ finished' = finished \ {p}
    /\ local_files' = local_files \cup CollectResult(p)
    /\ appends' = appends + Cardinality(CollectResult(p))
    /\ UNCHANGED <<remoteVars, configVars, pc, variant, dry_run, planVars,
                   sweepQueue, pending, staging, output, reapQueue, result,
                   histVars, reportVars, batchVars, countVars, inflight, failing>>

\* Every future has been yielded and the with block is left: download_files
\* returns and consolidate_date looks at the list.
FetchReturn ==
    /\ pc = "fetch"
    /\ AllWorkersDone(pending \cup inflight \cup finished)
    /\ pc' = AfterFetch(local_files)
    /\ result' = IF AfterFetch(local_files) = "cleanup" THEN "False" ELSE result
    /\ UNCHANGED <<remoteVars, configVars, variant, dry_run, planVars, localVars,
                   histVars, reportVars, batchVars, countVars, poolVars>>

NextFetch ==
    \/ WorkerStart
    \/ \E p \in FetchFiles : WorkerFinish(p)
    \/ \E p \in FetchFiles : Collect(p)
    \/ FetchReturn

SpecFetch == InitFetch /\ [][NextFetch]_vars

\* ------------------------------------------------------------ analysis
\* The consolidation analysis of consolidate_date_dry_run and demo_analysis as
\* a function of the file count and the total size in bytes.
TargetBytes == TARGET_FILE_SIZE_MB * BytesPerMB

\* demo_analysis: 47 files, 1.64 MB.
DemoFiles == 47
DemoTotalBytes == (164 * BytesPerMB) \div 100

PlanCounts == {3, MIN_FILES_TO_CONSOLIDATE, DemoFiles, 100}
PlanTotals ==
    {DemoTotalBytes} \cup
    {t \in {k * TargetBytes + d : k \in 0..MaxTargets, d \in {-1, 0, 1}} : t > 0}

InitPlan ==
    /\ present = {}
    /\ size = [p \in Paths |-> 0]
    /\ content = [p \in Paths |-> {}]
    /\ cleanupThreshold = CLEANUP_THRESHOLD_BYTES
    /\ minFileSize = MIN_FILE_SIZE_BYTES
    /\ pc = "plan"
    /\ variant = "remote" /\ dry_run = TRUE
    /\ files = {} /\ file_info = {} /\ skipped_files = {}
    /\ total_size \in PlanTotals
    /\ sweepQueue = {} /\ pending = {} /\ local_files = {}
    /\ staging = FALSE /\ output = 0 /\ reapQueue = {}
    /\ result = "none"
    /\ startPresent = {}
    /\ sweepCalls = {} /\ getCalls = {} /\ putCalls = 0 /\ reapCalls = {}
    /\ mergeInputs = {} /\ mergeResult = "none" /\ mergeFault = "none"
    /\ totalRows = 0 /\ rereadRows = 0 /\ uploadResult = "none"
    /\ stagingCreated = FALSE /\ rmtreeResult = "none"
    /\ scanResult = "ok"
    /\ file_count \in PlanCounts
    /\ target_files = 0 /\ reduction_percent = 0
    /\ deleted_count = 0 /\ sweepListResult = "none"
    /\ sizeCalls = 0 /\ reapAttempts = 0 /\ goneCalls = 0
    /\ inflight = {} /\ finished = {} /\ failing = {} /\ appends = 0
    /\ numDates = 1 /\ args_dry_run = TRUE /\ dateIdx = 0
    /\ called = <<>> /\ outcomes = <<>> /\ success_count = 0 /\ exit_code = -1

\* The count gate followed by the analysis of an eligible partition.
PlanReport ==
    /\ pc = "plan"
    /\ IF file_count < MIN_FILES_TO_CONSOLIDATE
       THEN /\ pc' = "plan_skipped"
            /\ UNCHANGED <<target_files, reduction_percent>>
       ELSE /\ target_files' = TargetFiles(total_size)
            /\ reduction_percent' = ReductionPercent(file_count, target_files')
            /\ pc' = "planned"
    /\ result' = "True"
    /\ UNCHANGED <<remoteVars, configVars, variant, dry_run, planVars, localVars,
                   histVars, file_count, batchVars, countVars, poolVars>>

NextPlan == PlanReport

SpecPlan == InitPlan /\ [][NextPlan]_vars

\* ------------------------------------------------------------ main
\* The partition main's next date finds on the store: one file the sweeper
\* would take and source files above every threshold.
DatePartition == [p \in Paths |-> IF p = 1 THEN CLEANUP_THRESHOLD_BYTES
                                  ELSE IF p \in Files THEN Max(SourceSizes) ELSE 0]

\* The for loop takes the next element of dates.
MainNextDate ==
    /\ pc = "main_loop"
    /\ dateIdx < numDates
    /\ dateIdx' = dateIdx + 1
    /\ called' = Append(called, dateIdx')
    /\ present' = Files
    /\ size' = DatePartition
    /\ content' = [p \in Paths |-> IF p \in Files THEN {p} ELSE {}]
    /\ pc' = "idle"
    /\ UNCHANGED <<configVars, variant, dry_run, planVars, localVars, result,
                   histVars, reportVars, numDates, args_dry_run, outcomes,
                   success_count, exit_code, countVars, poolVars>>

\* Where main goes once consolidate_date has returned for a date.
AfterDateStopsOnFailure ==
    IF dateIdx < numDates /\ result = "True" THEN "main_loop" ELSE "main_return"
AfterDate == IF dateIdx < numDates THEN "main_loop" ELSE "main_return"

\* consolidate_date returned: count the date when it returned True.  The
\* call's locals are gone with its frame; scanResult keeps the outcome of the
\* date's listing until the next call.
MainRecord ==
    /\ pc = "returned"
    /\ outcomes' = Append(outcomes, result)
    /\ success_count' = IF result = "True" THEN success_count + 1 ELSE success_count
    /\ pc' = AfterDate
    /\ variant' = "parquet" /\ dry_run' = FALSE
    /\ files' = {} /\ file_info' = {} /\ skipped_files' = {} /\ total_size' = 0
    /\ sweepQueue' = {} /\ pending' = {} /\ local_files' = {}
    /\ staging' = staging /\ output' = 0 /\ reapQueue' = {}
    /\ result' = "none"
    /\ startPresent' = Files
    /\ sweepCalls' = {} /\ getCalls' = {} /\ putCalls' = 0 /\ reapCalls' = {}
    /\ mergeInputs' = {} /\ mergeResult' = "none" /\ mergeFault' = "none"
    /\ totalRows' = 0 /\ rereadRows' = 0 /\ uploadResult' = "none"
    /\ stagingCreated' = FALSE /\ rmtreeResult' = "none"
    /\ file_count' = 0 /\ target_files' = 0 /\ reduction_percent' = 0
    /\ deleted_count' = 0 /\ sweepListResult' = "none"
    /\ sizeCalls' = 0 /\ reapAttempts' = 0 /\ goneCalls' = 0
    /\ inflight' = {} /\ finished' = {} /\ failing' = {} /\ appends' = 0
    /\ UNCHANGED <<remoteVars, configVars, scanResult, numDates, args_dry_run, dateIdx,
                   called, exit_code>>

ExitCodeAnySuccess(count, total) == IF count > 0 THEN 0 ELSE 1
ExitCode(count, total) == IF count = total THEN 0 ELSE 1

MainReturn ==
    /\ pc = "main_return"
    /\ exit_code' = ExitCode(success_count, numDates)
    /\ pc' = "exited"
    /\ UNCHANGED <<remoteVars, configVars, variant, dry_run, planVars, localVars,
                   result, histVars, reportVars, numDates, args_dry_run, dateIdx,
                   called, outcomes, success_count, countVars, poolVars>>

\* main after argument parsing, before the first date: --days-back N asks for
\* N + 1 dates, --dry-run is handed to every consolidate_date call.
InitBatch ==
    /\ present = {}
    /\ size = [p \in Paths |-> 0]
    /\ content = [p \in Paths |-> {}]
    /\ cleanupThreshold = CLEANUP_THRESHOLD_BYTES
    /\ minFileSize = MIN_FILE_SIZE_BYTES
    /\ pc = "main_loop"
    /\ RunInit
    /\ numDates \in 1..MaxDates
    /\ args_dry_run \in BOOLEAN
    /\ dateIdx = 0 /\ called = <<>> /\ outcomes = <<>>
    /\ success_count = 0 /\ exit_code = -1

NextBatch ==
    \/ MainNextDate
    \/ StartRun("parquet", args_dry_run)
    \/ \E ok \in BOOLEAN : SweepList(ok)
    \/ \E ok \in BOOLEAN : SweepDelete(ok)
    \/ SweepDeleteRaises
    \/ \E ok \in BOOLEAN : Scan(ok)
    \/ \E ok \in BOOLEAN : GetFileInfo(ok)
    \/ \E ok \in BOOLEAN : DownloadStart(ok)
    \/ \E p \in Paths, ok \in BOOLEAN : DownloadOne(p, ok)
    \/ \E t \in Stamps, fault \in {"none", "schema", "io"}, n \in 0..SumOver(Files, Rows) :
          Merge(t, fault, n)
    \/ \E ok \in BOOLEAN : Upload(ok)
    \/ \E ok \in BOOLEAN : Reap(ok)
    \/ \E ok \in BOOLEAN : Cleanup(ok)
    \/ MainRecord
    \/ MainReturn
    \/ Hang

SpecBatch == InitBatch /\ [][NextBatch]_vars

\* A second run of the same date, started by another process, deletes a
\* source file in its own reap phase while this run uploads or reaps.
OtherRunDeletes(p) ==
    /\ pc \in {"upload", "reap"}
    /\ p \in present
    /\ ~IsConsolidated(p)
    /\ present' = present \ {p}
    /\ UNCHANGED <<size, content, configVars, pc, variant, dry_run, planVars, localVars,
                   result, histVars, reportVars, batchVars, countVars, poolVars>>

InitConcurrent ==
    /\ present = Files
    /\ size = DatePartition
    /\ content = [p \in Paths |-> IF p \in Files THEN {p} ELSE {}]
    /\ cleanupThreshold = CLEANUP_THRESHOLD_BYTES
    /\ minFileSize = MIN_FILE_SIZE_BYTES
    /\ pc = "idle"
    /\ RunInit
    /\ numDates = 1 /\ args_dry_run = FALSE /\ dateIdx = 0
    /\ called = <<>> /\ outcomes = <<>> /\ success_count = 0 /\ exit_code = -1

NextConcurrent ==
    \/ Next
    \/ \E p \in Files : OtherRunDeletes(p)

SpecConcurrent == InitConcurrent /\ [][NextConcurrent]_vars

\* ================================================================ claims
Returned == pc = "returned"

\* The entries of the scanned list that pass the planner's size filter.
EligibleEntries == {p \in files : size[p] >= minFileSize}

\* get_file_info has run in this date run.
InfoDone ==
    /\ variant = "parquet"
    /\ Cardinality(files) >= MIN_FILES_TO_CONSOLIDATE
    /\ pc \notin {"scan", "info"}

\* C1: remove_source_files issues a delete only after upload_consolidated_file
\* returned success in the same date run; when the upload fails the date is
\* reported failed and no source file is removed.
C1_ReapOnlyAfterPublish ==
    /\ reapCalls # {} => uploadResult = "True"
    /\ uploadResult = "False" =>
          /\ result = "False"
          /\ reapCalls = {}
          /\ files \subseteq present

C1_Witness ==
    /\ Returned
    /\ uploadResult = "True"
    /\ reapCalls # {}
    /\ \E p \in reapCalls : p \notin present

\* C2: the source files the reaper attempts to delete are among the files
\* whose download succeeded and that were inputs of the verified merge.
C2_ReapSubsetOfDownloaded ==
    reapCalls \subseteq (local_files \cap mergeInputs)

\* C3: when a date run has returned, every row of every source file that was
\* not a sweep candidate is still in the remote partition, in its original
\* file or in a published consolidated file.
C3_NoContentLost ==
    Returned =>
        \A f \in Files :
            size[f] > cleanupThreshold => \E p \in present : f \in content[p]

\* C4: under dry-run a date run issues no put, no delete (sweep or source
\* removal) and no download, creates no staging directory and leaves the
\* remote partition unchanged, for both consolidators.
C4_DryRunPurity ==
    dry_run =>
        /\ putCalls = 0
        /\ sweepCalls = {}
        /\ reapCalls = {}
        /\ getCalls = {}
        /\ ~stagingCreated
        /\ present = startPresent

C4_Witness ==
    /\ Returned
    /\ dry_run
    /\ variant = "parquet"
    /\ Cardinality(files) >= MIN_FILES_TO_CONSOLIDATE
    /\ SweepCandidates # {}

\* C5 as claimed: a run whose scanned file count is below
\* MIN_FILES_TO_CONSOLIDATE returns success and issues no put and no delete.
C5_NoMutationWhenIneligible ==
    (Returned /\ Cardinality(files) < MIN_FILES_TO_CONSOLIDATE) =>
        /\ result = "True"
        /\ putCalls = 0
        /\ sweepCalls = {}
        /\ reapCalls = {}

\* C5 as amended: a run whose scanned file count is below
\* MIN_FILES_TO_CONSOLIDATE returns success with no download, no put and no
\* source removal; the only deletes are the sweeper's, each of a file of
\* size <= CLEANUP_THRESHOLD_BYTES, and nothing else leaves the partition.
C5_OnlySweepWhenIneligible ==
    (Returned /\ Cardinality(files) < MIN_FILES_TO_CONSOLIDATE) =>
        /\ result = "True"
        /\ putCalls = 0
        /\ getCalls = {}
        /\ reapCalls = {}
        /\ ~stagingCreated
        /\ \A p \in sweepCalls : size[p] <= cleanupThreshold
        /\ startPresent \ present \subseteq sweepCalls
        /\ present \subseteq startPresent

C5_Witness ==
    /\ Returned
    /\ ~dry_run
    /\ Cardinality(files) = 3
    /\ Cardinality(sweepCalls) = 2
    /\ Cardinality(present) = 3

\* C6: a date run proceeds past planning to staging if and only if the
\* entries remaining after the size filter number at least
\* MIN_FILES_TO_CONSOLIDATE.
C6_ProceedsIffEligible ==
    /\ pc = "stage" => Cardinality(file_info) >= MIN_FILES_TO_CONSOLIDATE
    /\ (Returned /\ ~dry_run /\ variant = "parquet" /\ ~stagingCreated
          /\ result = "True") =>
          Cardinality(EligibleEntries) < MIN_FILES_TO_CONSOLIDATE

\* C7: with CLEANUP_THRESHOLD_BYTES < MIN_FILE_SIZE_BYTES, a file whose size
\* lies strictly between them is in the skipped set, is never deleted by the
\* sweeper and is never an input of the merge.
Between(p) == cleanupThreshold < size[p] /\ size[p] < minFileSize

C8_MergeRoundTrip ==
    /\ mergeResult = "True" => rereadRows = SumOver(mergeInputs, Rows)
    /\ (mergeFault \in {"none", "rowcount"} /\ mergeResult # "none"
          /\ rereadRows # SumOver(mergeInputs, Rows)) => mergeResult = "False"
    /\ mergeResult = "False" =>
          /\ result = "False"
          /\ putCalls = 0
          /\ uploadResult = "none"
          /\ reapCalls = {}

C8_Witness ==
    /\ Returned
    /\ mergeFault = "rowcount"
    /\ Cardinality(mergeInputs) >= 2
    /\ rereadRows # SumOver(mergeInputs, Rows)

ZeroDownloads == stagingCreated /\ pc \notin {"stage", "fetch"} /\ local_files = {}
MergeFailed == mergeResult = "False"
UploadFailed == uploadResult = "False"
\* The run got past planning and then left the try block by an exception
\* before the staging directory existed.
UnexpectedFault ==
    /\ variant = "parquet" /\ ~dry_run
    /\ Cardinality(files) >= MIN_FILES_TO_CONSOLIDATE
    /\ ~stagingCreated
    /\ pc = "returned"

\* C11: a returned date run is reported failed exactly when no download
\* succeeded, the merge or its verification failed, the upload failed, or an
\* unexpected fault was caught; the merge reads exactly the files that were
\* downloaded successfully, also when other downloads failed; and a run whose
\* upload succeeded is reported succeeded whatever the source deletions did.
C11_FailedExactlyWhen ==
    /\ Returned =>
          (result = "False" <=>
              (ZeroDownloads \/ MergeFailed \/ UploadFailed \/ UnexpectedFault))
    /\ mergeResult # "none" =>
          /\ mergeInputs = local_files
          /\ mergeInputs # {}
    /\ (Returned /\ uploadResult = "True") => result = "True"

\* A run in which some downloads failed and others succeeded, the upload
\* succeeded, a source deletion failed, and the date is reported succeeded.
C11_Witness ==
    /\ Returned /\ result = "True"
    /\ getCalls = files /\ local_files # {} /\ local_files # files
    /\ uploadResult = "True"
    /\ \E p \in reapCalls : p \in present

\* main's positions outside a consolidate_date call.
InMain == pc \in {"main_loop", "main_return", "exited"}
Exited == exit_code # -1

\* C12: when main returns, its exit code is 0 exactly when consolidate_date
\* returned True for every requested date and 1 otherwise, and the reported
\* count is the number of dates that returned True out of the dates requested.
C12_ExitCode ==
    /\ exit_code \in {-1, 0, 1}
    /\ Exited =>
          /\ Len(outcomes) = numDates
          /\ exit_code = 0 <=> \A i \in 1..numDates : outcomes[i] = "True"
          /\ exit_code = 1 <=> \E i \in 1..numDates : outcomes[i] = "False"
          /\ success_count = Cardinality({i \in 1..numDates : outcomes[i] = "True"})

\* A batch of two dates of which exactly one succeeded has exited with 1.
C12_Witness ==
    /\ Exited /\ numDates = 2
    /\ success_count = 1 /\ exit_code = 1
    /\ outcomes = <<"True", "False">>

\* C13: main calls consolidate_date for the requested dates in order, each
\* exactly once and one at a time; every call returns True or False to main
\* whatever failed inside it, and the loop goes on to the next date whatever
\* the earlier dates returned, so main returns only after the last date.
C13_EveryDateOnce ==
    /\ \A i \in DOMAIN called : called[i] = i
    /\ Len(called) = dateIdx /\ dateIdx <= numDates
    /\ Len(outcomes) = IF InMain THEN Len(called) ELSE Len(called) - 1
    /\ \A i \in DOMAIN outcomes : outcomes[i] \in {"True", "False"}
    /\ Returned => result \in {"True", "False"}
    /\ pc = "main_loop" => dateIdx < numDates
    /\ pc \in {"main_return", "exited"} => Len(called) = numDates

\* The first of two dates failed, the second was still processed and
\* succeeded, and main has returned.
C13_Witness ==
    /\ Exited /\ called = <<1, 2>>
    /\ outcomes = <<"False", "True">>

\* C16: when the listing call of the scanner fails, the scanner returns the
\* empty list and the date run returns True without a download, a put or a
\* source removal; main records the date and goes on with the remaining dates.
C16_ListingFailure ==
    /\ (scanResult = "failed" /\ ~InMain /\ pc # "idle") =>
          /\ files = {}
          /\ Returned /\ result = "True"
          /\ getCalls = {} /\ putCalls = 0 /\ reapCalls = {}
          /\ ~stagingCreated
    /\ (scanResult = "failed" /\ InMain) =>
          /\ outcomes[Len(outcomes)] = "True"
          /\ pc = "main_loop" <=> dateIdx < numDates
    /\ (scanResult = "failed" /\ pc = "idle") => dateIdx = Len(outcomes) + 1

\* The listing of the first date failed and main has taken the second date.
C16_Witness ==
    /\ scanResult = "failed"
    /\ pc = "idle" /\ dateIdx = 2
    /\ outcomes = <<"True">>

\* C14: the output path a run publishes to is not a path an earlier run on
\* the same date has already produced, and a successful publish never
\* replaces a file that was on the store when the run started.
C14_OutputPathUnique ==
    /\ mergeResult = "True" => ConsolidatedPath(output) \notin startPresent
    /\ uploadResult = "True" => ConsolidatedPath(output) \notin startPresent

\* C17: no date run waits for ever in a remote call.
C17_EveryCallBounded == pc # "hung"

\* C15: a file that carries the consolidated name marker and was on the
\* partition when a run started is not in the list the run's scanner returns,
\* and the run neither downloads it, nor merges it, nor hands it to the reaper.
C15_ConsolidatedNeverScanned ==
    \A p \in startPresent :
        IsConsolidated(p) =>
            /\ p \notin files
            /\ p \notin getCalls
            /\ p \notin mergeInputs
            /\ p \notin reapCalls

\* C18: for every positive total size the target file count is at least 1 and
\* is the whole number of target file sizes the total holds, or 1 when it
\* holds none; 47 files of 1.64 MB in total pass the count gate with target
\* file count 1 and a reported reduction of 97 percent.
C18_TargetFileCount ==
    /\ pc = "planned" =>
          /\ file_count >= MIN_FILES_TO_CONSOLIDATE
          /\ target_files >= 1
          /\ target_files * TargetBytes <= Max({total_size, TargetBytes})
          /\ total_size < (target_files + 1) * TargetBytes
    /\ (pc # "plan" /\ file_count = DemoFiles /\ total_size = DemoTotalBytes) =>
          /\ pc = "planned"
          /\ target_files = 1
          /\ reduction_percent = 97

\* The demo partition has been analysed.
C18_Witness ==
    /\ pc = "planned"
    /\ file_count = DemoFiles /\ total_size = DemoTotalBytes
    /\ target_files = 1 /\ reduction_percent = 97

\* The phase of a date run a position belongs to, in the order of
\* consolidate_date: sweep, scan and plan, staging, fetch, merge and verify,
\* publish, reap, staging cleanup.
Phase(at) ==
    CASE at = "idle"                           -> 0
      [] at \in {"sweep_list", "sweep"}        -> 1
      [] at \in {"scan", "info", "remote_sizes"} -> 2
      [] at = "stage"                          -> 3
      [] at = "fetch"                          -> 4
      [] at = "merge"                          -> 5
      [] at = "upload"                         -> 6
      [] at = "reap"                           -> 7
      [] at = "cleanup"                        -> 8
      [] OTHER                                 -> 9

\* What each phase has left behind when a later one runs, and what no earlier
\* one has done yet.
PhasesInOrder ==
    /\ Phase(pc) >= 2 /\ pc # "hung" => sweepQueue = {}
    /\ Phase(pc) <= 1 => files = {} /\ scanResult = "none"
    /\ Phase(pc) <= 3 => ~stagingCreated /\ getCalls = {}
    /\ Phase(pc) \in 5..8 => pending = {}
    /\ mergeResult # "none" => pending = {} /\ getCalls = files
    /\ Phase(pc) <= 5 => mergeResult = "none"
    /\ Phase(pc) <= 6 => putCalls = 0 /\ uploadResult = "none"
    /\ putCalls <= 1
    /\ putCalls = 1 => mergeResult = "True"
    /\ Phase(pc) <= 6 => reapCalls = {}
    /\ reapCalls # {} => uploadResult = "True"
    /\ Phase(pc) <= 8 => rmtreeResult = "none"
    /\ rmtreeResult # "none" => reapQueue = {}

\* C19: the phases of a date run follow one another in the order sweep, scan
\* and plan, staging, fetch, merge and verify, publish, reap, staging
\* cleanup; the run never goes back to an earlier phase, a phase starts only
\* when the one before it is complete (no sweep deletion outstanding at the
\* scan, no download outstanding at the merge), and a run whose plan is
\* ineligible or which is a dry run returns success after scan and plan
\* without entering a later phase.
C19_PhaseOrder ==
    /\ []PhasesInOrder
    /\ [][Phase(pc') >= Phase(pc)]_vars
    /\ []((Returned /\ (dry_run \/ Cardinality(files) < MIN_FILES_TO_CONSOLIDATE)) =>
            /\ result = "True"
            /\ ~stagingCreated /\ getCalls = {} /\ mergeResult = "none"
            /\ putCalls = 0 /\ reapCalls = {} /\ rmtreeResult = "none")

\* A run that went through all eight phases.
C19_Witness ==
    /\ Returned /\ result = "True"
    /\ sweepCalls # {} /\ scanResult = "ok"
    /\ stagingCreated /\ getCalls = files
    /\ mergeResult = "True" /\ uploadResult = "True"
    /\ reapCalls = files /\ rmtreeResult = "ok"

\* C20: once the sizes are resolved, every scanned file smaller than
\* MIN_FILE_SIZE_BYTES is in the skipped set, and the run neither downloads
\* it, nor merges it, nor hands it to the reaper; it stays on the store.
C20_SkippedNeverTouched ==
    \A p \in files :
        (InfoDone /\ size[p] < minFileSize) =>
            /\ p \in skipped_files
            /\ p \notin getCalls
            /\ p \notin mergeInputs
            /\ p \notin reapCalls
            /\ p \in present

\* cleanup_corrupted_files has returned and consolidate_date has not gone on.
SweepReturned == variant = "parquet" /\ pc = "scan"

\* C21: when a sweep that is not a dry run and whose listing succeeded has
\* returned, a delete was attempted for exactly the listed files of size <=
\* CLEANUP_THRESHOLD_BYTES, whatever the earlier deletes did, and the count
\* it returns is the number of files it removed; under dry_run or after a
\* failed listing no delete was attempted and the count is 0.
C21_SweepAttemptsEveryCandidate ==
    SweepReturned =>
        /\ (sweepListResult = "ok" /\ ~dry_run) =>
              sweepCalls = {p \in startPresent : size[p] <= cleanupThreshold}
        /\ (sweepListResult = "failed" \/ dry_run) =>
              sweepCalls = {} /\ deleted_count = 0
        /\ deleted_count = Cardinality(startPresent \ present)

\* download_files has returned.
Fetched == pc \in {"merge", "cleanup"}

\* C22: at no moment are more than PARALLEL_DOWNLOADS downloads in flight,
\* and a download is issued for every submitted file whichever of the others
\* failed: when download_files returns, every file has been attempted.
C22_BoundedIndependentDownloads ==
    /\ Cardinality(inflight) <= PARALLEL_DOWNLOADS
    /\ Fetched => getCalls = files
    /\ \A p \in failing : p \in getCalls => (getCalls \ failing) \subseteq
          (inflight \cup finished \cup local_files)

\* Two downloads failed, one of them the file that had to wait for a worker,
\* and the call has returned with every file attempted.
C22_Witness ==
    /\ Fetched
    /\ failing = {2, PARALLEL_DOWNLOADS + 1}
    /\ getCalls = files
    /\ local_files = files \ failing

\* C23: download_files returns only when no submitted download is queued,
\* running or waiting to be collected; nothing is appended twice; and the list
\* it returns holds exactly the files whose download succeeded, whatever the
\* order in which the workers finished.
C23_CollectsEveryResult ==
    /\ appends = Cardinality(local_files)
    /\ local_files \subseteq getCalls \ failing
    /\ Fetched =>
          /\ pending = {} /\ inflight = {} /\ finished = {}
          /\ local_files = files \ failing
          /\ appends = Cardinality(files \ failing)

\* A call returned after some downloads failed and the others succeeded.
C23_Witness ==
    /\ Fetched
    /\ failing = {1}
    /\ local_files = files \ {1}
    /\ appends = PARALLEL_DOWNLOADS

\* The run published its output.
Published == uploadResult = "True"

\* C24: no source file receives a second delete attempt, and a run that
\* published and returned has attempted the delete of every file of the reap
\* set, still has its consolidated file on the remote store and reports
\* success, whichever deletes failed.
C24_ReapBestEffort ==
    /\ reapAttempts = Cardinality(reapCalls)
    /\ reapCalls \subseteq ReapSet
    /\ (Returned /\ Published) =>
          /\ reapCalls = ReapSet
          /\ reapAttempts = Cardinality(ReapSet)
          /\ ConsolidatedPath(output) \in present
          /\ result = "True"

\* A published run returned with a failed delete before a successful one.
C24_Witness ==
    /\ Returned /\ Published
    /\ Min(ReapSet) \in present
    /\ Max(ReapSet) \notin present
    /\ reapAttempts = Cardinality(ReapSet)
    /\ result = "True"

\* The source files that were on the remote store when the run started.
SurvivingSources == {p \in startPresent : ~IsConsolidated(p)}

\* The rows held by the consolidated files that are on the remote store.
PublishedRows(p) == {q \in present : IsConsolidated(q) /\ p \in content[q]}

\* C25: a run of consolidate_date on a partition whose rows were already
\* published publishes nothing more (no row of a source file is held by two
\* consolidated files) and, once it has returned, has attempted the delete of
\* every surviving source file.
C25_RerunOnlyReaps ==
    /\ \A p \in Files : Cardinality(PublishedRows(p)) <= 1
    /\ (Returned /\ variant = "parquet" /\ ~dry_run /\ rmtreeResult # "raised"
          /\ scanResult = "ok" /\ sweepListResult = "ok") =>
          (putCalls = 0 /\ SurvivingSources \subseteq (reapCalls \cup sweepCalls))

\* C26: with a second run deleting source files of the same date, the
\* reaper of a run that published still visits its whole reap set, every
\* delete it issued for a file already gone was one attempt among the others,
\* and the run reports success.
C26_DoubleDeleteTolerated ==
    /\ goneCalls <= reapAttempts
    /\ (pc = "reap" /\ goneCalls > 0) => reapQueue = ReapSet \ reapCalls
    /\ (pc \in {"cleanup", "returned"} /\ Published) =>
          /\ reapCalls = ReapSet
          /\ result = "True"

\* The first delete of the reaper found its file already gone, the reaper
\* went on to delete the others and the run returned.
C26_Witness ==
    /\ Returned /\ Published
    /\ goneCalls = 1
    /\ reapCalls = ReapSet
    /\ ReapSet \cap present = {}
    /\ result = "True"

\* C27: a date run issues at most one remote call to resolve file sizes, and
\* a run that resolved the sizes of its files issued exactly one, with the
\* command-line consolidator and with the ssh analyser alike.
C27_SingleSizeCall ==
    /\ sizeCalls <= 1
    /\ (Returned /\ file_info # {}) => sizeCalls = 1

\* The consolidated files that were on the remote store when the run started.
PriorConsolidated == {p \in startPresent : IsConsolidated(p)}

\* C28: a consolidated file that is on the remote store when a run starts
\* receives no delete from the sweeper or the reaper of that run and is still
\* there at every later moment of the run.
C28_ConsolidatedNeverDeleted ==
    \A p \in PriorConsolidated :
        /\ p \notin sweepCalls
        /\ p \notin reapCalls
        /\ p \in present

\* The run got as far as download_files.
ReachedFetch == stagingCreated

\* C29: a date run issues at most one put and a dry run none; a put is
\* issued only for a merge output that was written without a fault and whose
\* re-read row count equals the sum of the staged inputs' row counts; and a
\* run that reached the fetch phase and reports success issued exactly one
\* put, which succeeded.
C29_SingleVerifiedPut ==
    /\ putCalls <= 1
    /\ dry_run => putCalls = 0
    /\ putCalls >= 1 =>
          /\ mergeFault = "none"
          /\ rereadRows = totalRows
          /\ mergeInputs # {}
    /\ (Returned /\ result = "True" /\ ReachedFetch) =>
          /\ putCalls = 1
          /\ uploadResult = "True"

\* A run returned success after one put of the verified merge of all files.
C29_Witness ==
    /\ Returned /\ result = "True" /\ ReachedFetch
    /\ putCalls = 1
    /\ mergeInputs = files
    /\ rereadRows = totalRows /\ totalRows > 0
    /\ ConsolidatedPath(output) \in present

====
